---- MODULE Spec2Model ----
(***************************************************************************)
(* HttpGameStateServer (src/src/HttpGameStateServer.h): the lifecycle of   *)
(* the HTTP listener (Start / Stop and the listener thread Start spawns)   *)
(* and the handling of one HTTP request (pre-routing hook, route table,    *)
(* endpoint handlers, response policy).                                    *)
(*                                                                         *)
(* The control thread and every listener thread advance one statement at   *)
(* a time; the reads and writes of the atomic _running flag are the steps  *)
(* at which they interleave.  The calls into httplib::Server (listen,      *)
(* stop, set_pre_routing_handler, set_header, routing) are modelled at     *)
(* the call sites by what the library does there.                          *)
(*                                                                         *)
(* Spec / FairSpec: Start, Stop, the destructor and the listener threads.  *)
(* HttpSpec: one request at a time through every binding.                  *)
(* HostSpec: /api/host on httplib's worker threads, HandleHostInfo one     *)
(* statement at a time on its unsynchronized statics.                      *)
(* CycleSpec: Start/Stop cycles with /api/host requests in between.        *)
(***************************************************************************)
EXTENDS Integers, Sequences, FiniteSets, TLC

\* At most this many listener threads are spawned in one behaviour.
MaxThreads == 3
\* At most this many Start()/Stop() calls are made in one behaviour.
MaxCalls == 4

Tids == 1..MaxThreads

\* No thread: the value of an empty std::unique_ptr<std::thread>.
NoThread == 0

VARIABLES
    _running,        \* std::atomic<bool> _running
    _serverThread,   \* std::unique_ptr<std::thread> _serverThread (a thread id or NoThread)
    _server,         \* httplib::Server: [is_running, sock] (accept loop entered, listening socket open)
    thr,             \* position of each listener thread in the lambda of Start()
    listenRet,       \* what _server->listen() returned in each listener thread
    joined,          \* the threads join() has returned for
    pc,              \* position of the control thread
    log              \* the Start()/Stop() calls that have returned, in order

lifeVars == <<_running, _serverThread, _server, thr, listenRet, joined, pc, log>>

VARIABLES
    _allowedOrigin,  \* std::string _allowedOrigin, set by the constructor
    req,             \* the HTTP request handled last
    res,             \* httplib::Response of that request, as it is sent
    calls,           \* the collaborator functions called while handling it, in order
    os,              \* the host: cumulative /proc/stat counters and memory in use
    sampler,         \* the function-local statics of HandleHostInfo
    wk,              \* httplib's worker threads inside HandleHostInfo: position and locals
    hist             \* history of the samples taken, kept for the properties only

httpVars == <<_allowedOrigin, req, res, calls, os, sampler, wk, hist>>

vars == <<_running, _serverThread, _server, thr, listenRet, joined, pc, log,
          _allowedOrigin, req, res, calls, os, sampler, wk, hist>>

----------------------------------------------------------------------------
\* bool IsRunning() const { return _running.load(); }
IsRunning == _running

\* std::thread::joinable(): a thread that was started and never joined,
\* whether or not its function has finished.
Joinable(t) == t # NoThread /\ thr[t] # "unborn" /\ t \notin joined

\* The threads spawned so far, and the id the next std::thread gets.
Spawned == {t \in Tids : thr[t] # "unborn"}
NextTid == Cardinality(Spawned) + 1

\* A listener thread that has been spawned and has not yet returned from
\* _server->listen(): it is about to bind, binding, or accepting.
Listening(t) == thr[t] \in {"started", "listen", "accepting"}

\* A call that returned to the control thread: its result, the thread it
\* spawned (NoThread if none) and _running as the caller finds it on return.
Returned(op, ret, t, r) ==
    log' = Append(log, [op |-> op, ret |-> ret, tid |-> t, running |-> r])

----------------------------------------------------------------------------
\* The state the constructor leaves: _running(false), a fresh httplib::Server,
\* no thread.
LifeInit ==
    /\ _running = FALSE
    /\ _serverThread = NoThread
    /\ _server = [is_running |-> FALSE, sock |-> FALSE]
    /\ thr = [t \in Tids |-> "unborn"]
    /\ listenRet = [t \in Tids |-> "none"]
    /\ joined = {}
    /\ pc = "idle"
    /\ log = <<>>

----------------------------------------------------------------------------
(* bool HttpGameStateServer::Start(), the control thread.                   *)

\* Start() entered with the already-running check left out.
StartCallNoCheck ==
    /\ pc = "idle"
    /\ Len(log) < MaxCalls
    /\ Cardinality(Spawned) < MaxThreads
    /\ pc' = "start_spawn"
    /\ UNCHANGED <<_running, _serverThread, _server, thr, listenRet, joined, log>>
    /\ UNCHANGED httpVars

\* if (_running.load()) { LOG_WARN(...); return false; }
StartCall ==
    /\ pc = "idle"
    /\ Len(log) < MaxCalls
    /\ Cardinality(Spawned) < MaxThreads
    /\ IF _running
         THEN /\ Returned("Start", FALSE, NoThread, _running)
              /\ UNCHANGED pc
         ELSE /\ pc' = "start_spawn"
              /\ UNCHANGED log
    /\ UNCHANGED <<_running, _serverThread, _server, thr, listenRet, joined>>
    /\ UNCHANGED httpVars

\* _serverThread = std::make_unique<std::thread>([this]() {...});
\* The new thread starts; the assignment then destroys the std::thread the
\* pointer held, and ~thread() of a joinable thread calls std::terminate.
StartSpawn ==
    /\ pc = "start_spawn"
    /\ thr' = [thr EXCEPT ![NextTid] = "started"]
    /\ IF Joinable(_serverThread)
         THEN /\ pc' = "terminated"
              /\ UNCHANGED _serverThread
         ELSE /\ pc' = "start_sleep"
              /\ _serverThread' = NextTid
    /\ UNCHANGED <<_running, _server, listenRet, joined, log>>
    /\ UNCHANGED httpVars

\* The sleep with its result read the wrong way round.
StartWakeInverted ==
    /\ pc = "start_sleep"
    /\ IF ~_running
         THEN /\ Returned("Start", TRUE, _serverThread, _running)
              /\ pc' = "idle"
         ELSE /\ pc' = "start_join"
              /\ UNCHANGED log
    /\ UNCHANGED <<_running, _serverThread, _server, thr, listenRet, joined>>
    /\ UNCHANGED httpVars

\* std::this_thread::sleep_for(100ms); if (_running.load()) return true;
\* The sleep ends at any point of the listener thread's progress.
StartWake ==
    /\ pc = "start_sleep"
    /\ IF _running
         THEN /\ Returned("Start", TRUE, _serverThread, _running)
              /\ pc' = "idle"
         ELSE /\ pc' = "start_join"
              /\ UNCHANGED log
    /\ UNCHANGED <<_running, _serverThread, _server, thr, listenRet, joined>>
    /\ UNCHANGED httpVars

\* else { if (_serverThread && _serverThread->joinable()) _serverThread->join();
\*        return false; }
\* join() returns once the thread's function has returned.
StartJoin ==
    /\ pc = "start_join"
    /\ IF Joinable(_serverThread)
         THEN /\ thr[_serverThread] = "done"
              /\ joined' = joined \cup {_serverThread}
         ELSE UNCHANGED joined
    /\ Returned("Start", FALSE, _serverThread, _running)
    /\ pc' = "idle"
    /\ UNCHANGED <<_running, _serverThread, _server, thr, listenRet>>
    /\ UNCHANGED httpVars

----------------------------------------------------------------------------
(* void HttpGameStateServer::Stop(), the control thread.                    *)

\* Stop() with its guard inverted: it returns at once while running.
StopCallInverted ==
    /\ pc = "idle"
    /\ Len(log) < MaxCalls
    /\ IF _running
         THEN /\ Returned("Stop", FALSE, NoThread, _running)
              /\ UNCHANGED pc
         ELSE /\ pc' = "stop_signal"
              /\ UNCHANGED log
    /\ UNCHANGED <<_running, _serverThread, _server, thr, listenRet, joined>>
    /\ UNCHANGED httpVars

\* if (!_running.load()) return;
StopCall ==
    /\ pc = "idle"
    /\ Len(log) < MaxCalls
    /\ IF ~_running
         THEN /\ Returned("Stop", FALSE, NoThread, _running)
              /\ UNCHANGED pc
         ELSE /\ pc' = "stop_signal"
              /\ UNCHANGED log
    /\ UNCHANGED <<_running, _serverThread, _server, thr, listenRet, joined>>
    /\ UNCHANGED httpVars

\* if (_server) _server->stop();
\* httplib::Server::stop() closes the listening socket only if the accept
\* loop has been entered (is_running_); before that it does nothing.
StopSignal ==
    /\ pc = "stop_signal"
    /\ _server' = IF _server.is_running
                    THEN [_server EXCEPT !.sock = FALSE]
                    ELSE _server
    /\ pc' = "stop_join"
    /\ UNCHANGED <<_running, _serverThread, thr, listenRet, joined, log>>
    /\ UNCHANGED httpVars

\* if (_serverThread && _serverThread->joinable()) _serverThread->join();
StopJoin ==
    /\ pc = "stop_join"
    /\ IF Joinable(_serverThread)
         THEN /\ thr[_serverThread] = "done"
              /\ joined' = joined \cup {_serverThread}
         ELSE UNCHANGED joined
    /\ pc' = "stop_store"
    /\ UNCHANGED <<_running, _serverThread, _server, thr, listenRet, log>>
    /\ UNCHANGED httpVars

\* Stop() that also puts the statics of HandleHostInfo back to their
\* initializers.
StopStoreResetsSampler ==
    /\ pc = "stop_store"
    /\ _running' = FALSE
    /\ Returned("Stop", TRUE, NoThread, FALSE)
    /\ pc' = "idle"
    /\ sampler' = [peakCpuUsage |-> 0, peakMemUsage |-> 0,
                   prevTotal |-> 0, prevIdle |-> 0, firstCall |-> TRUE]
    /\ UNCHANGED <<_serverThread, _server, thr, listenRet, joined>>
    /\ UNCHANGED <<_allowedOrigin, req, res, calls, os, wk, hist>>

\* _running.store(false); return;
StopStore ==
    /\ pc = "stop_store"
    /\ _running' = FALSE
    /\ Returned("Stop", TRUE, NoThread, FALSE)
    /\ pc' = "idle"
    /\ UNCHANGED <<_serverThread, _server, thr, listenRet, joined>>
    /\ UNCHANGED httpVars

----------------------------------------------------------------------------
(* HttpGameStateServer::~HttpGameStateServer(): Stop(), then the members    *)
(* are destroyed.                                                           *)

\* ~HttpGameStateServer() { Stop(); } entered: if (!_running.load()) return;
DtorCall ==
    /\ pc = "idle"
    /\ pc' = IF ~_running THEN "dtor_members" ELSE "dtor_signal"
    /\ UNCHANGED <<_running, _serverThread, _server, thr, listenRet, joined, log>>
    /\ UNCHANGED httpVars

\* Stop() inside the destructor: if (_server) _server->stop();
DtorSignal ==
    /\ pc = "dtor_signal"
    /\ _server' = IF _server.is_running
                    THEN [_server EXCEPT !.sock = FALSE]
                    ELSE _server
    /\ pc' = "dtor_join"
    /\ UNCHANGED <<_running, _serverThread, thr, listenRet, joined, log>>
    /\ UNCHANGED httpVars

\* Stop() inside the destructor: join the listener thread if joinable.
DtorJoin ==
    /\ pc = "dtor_join"
    /\ IF Joinable(_serverThread)
         THEN /\ thr[_serverThread] = "done"
              /\ joined' = joined \cup {_serverThread}
         ELSE UNCHANGED joined
    /\ pc' = "dtor_store"
    /\ UNCHANGED <<_running, _serverThread, _server, thr, listenRet, log>>
    /\ UNCHANGED httpVars

\* Stop() inside the destructor: _running.store(false); return;
DtorStore ==
    /\ pc = "dtor_store"
    /\ _running' = FALSE
    /\ pc' = "dtor_members"
    /\ UNCHANGED <<_serverThread, _server, thr, listenRet, joined, log>>
    /\ UNCHANGED httpVars

\* The members are destroyed: ~unique_ptr<std::thread> destroys the
\* std::thread, and ~thread() of a joinable thread calls std::terminate.
DtorMembers ==
    /\ pc = "dtor_members"
    /\ pc' = IF Joinable(_serverThread) THEN "terminated" ELSE "destroyed"
    /\ UNCHANGED <<_running, _serverThread, _server, thr, listenRet, joined, log>>
    /\ UNCHANGED httpVars

----------------------------------------------------------------------------
(* The lambda Start() runs on the listener thread t.  Nothing runs once     *)
(* std::terminate has ended the process.                                    *)

\* LOG_INFO(...); _running.store(true);
ThreadStoreTrue(t) ==
    /\ pc # "terminated"
    /\ thr[t] = "started"
    /\ _running' = TRUE
    /\ thr' = [thr EXCEPT ![t] = "listen"]
    /\ UNCHANGED <<_serverThread, _server, listenRet, joined, pc, log>>
    /\ UNCHANGED httpVars

\* _server->listen(_host, _port): bind_to_port() fails and listen returns
\* false, or it binds, opens the listening socket and enters the accept loop.
ThreadListen(t) ==
    /\ pc # "terminated"
    /\ thr[t] = "listen"
    /\ \E bound \in BOOLEAN :
         IF bound
           THEN /\ _server' = [is_running |-> TRUE, sock |-> TRUE]
                /\ thr' = [thr EXCEPT ![t] = "accepting"]
                /\ UNCHANGED listenRet
           ELSE /\ listenRet' = [listenRet EXCEPT ![t] = "false"]
                /\ thr' = [thr EXCEPT ![t] = "returned"]
                /\ UNCHANGED _server
    /\ UNCHANGED <<_running, _serverThread, joined, pc, log>>
    /\ UNCHANGED httpVars

\* The accept loop ends when stop() has closed the listening socket;
\* listen() then returns true.
ThreadAcceptEnd(t) ==
    /\ pc # "terminated"
    /\ thr[t] = "accepting"
    /\ ~_server.sock
    /\ _server' = [_server EXCEPT !.is_running = FALSE]
    /\ listenRet' = [listenRet EXCEPT ![t] = "true"]
    /\ thr' = [thr EXCEPT ![t] = "returned"]
    /\ UNCHANGED <<_running, _serverThread, joined, pc, log>>
    /\ UNCHANGED httpVars

\* Both branches after listen(): LOG_...; _running.store(false); the lambda
\* returns.
ThreadStoreFalse(t) ==
    /\ pc # "terminated"
    /\ thr[t] = "returned"
    /\ _running' = FALSE
    /\ thr' = [thr EXCEPT ![t] = "done"]
    /\ UNCHANGED <<_serverThread, _server, listenRet, joined, pc, log>>
    /\ UNCHANGED httpVars

Listener(t) ==
    \/ ThreadStoreTrue(t)
    \/ ThreadListen(t)
    \/ ThreadAcceptEnd(t)
    \/ ThreadStoreFalse(t)

----------------------------------------------------------------------------
(* Response policy.  An httplib::Response starts with status -1 and no      *)
(* headers; set_header appends to the header multimap (a repeated name      *)
(* gives a repeated header line); set_content replaces the body and the     *)
(* Content-Type header.                                                     *)

\* The allowed origins a server is constructed with.
Origins == {"*", "https://dash.example"}

ACAO == "Access-Control-Allow-Origin"
ACAM == "Access-Control-Allow-Methods"
ACAH == "Access-Control-Allow-Headers"
ACMA == "Access-Control-Max-Age"

\* A JSON document: its top-level keys, its "error" string, the collaborator
\* payload it carries and the host metrics it reports.
Json(keys, error, data, metrics) ==
    [keys |-> keys, error |-> error, data |-> data, metrics |-> metrics]

EmptyBody == Json({}, "", <<>>, <<>>)

FreshResponse == [status |-> -1, headers |-> <<>>, body |-> EmptyBody]
NoRequest == [method |-> "", path |-> <<>>, query |-> ""]
NoResponse == [status |-> 0, headers |-> <<>>, body |-> EmptyBody]

set_header(r, key, val) == [r EXCEPT !.headers = Append(@, <<key, val>>)]

IsNotContentType(h) == h[1] # "Content-Type"

set_content(r, body, content_type) ==
    set_header([r EXCEPT !.body = body,
                         !.headers = SelectSeq(@, IsNotContentType)],
               "Content-Type", content_type)

\* The values of the header lines of r named key, in order.
HeaderValues(r, key) ==
    LET idx == {i \in 1..Len(r.headers) : r.headers[i][1] = key}
    IN  [i \in idx |-> r.headers[i][2]]

HasHeader(r, key) == \E i \in 1..Len(r.headers) : r.headers[i][1] = key

\* void HttpGameStateServer::SetCorsHeaders(httplib::Response& res)
SetCorsHeaders(r) ==
    set_header(set_header(set_header(set_header(r,
        ACAO, _allowedOrigin),
        ACAM, "GET, POST, PUT, DELETE, OPTIONS"),
        ACAH, "Content-Type, Authorization, X-Requested-With"),
        ACMA, "86400")

\* The second pre-routing lambda with the Allow-Headers line left out.
WildcardCorsNoAllowHeaders(r) ==
    set_header(set_header(r,
        ACAO, "*"),
        ACAM, "GET, POST, PUT, DELETE, OPTIONS")

\* The lambda of the second set_pre_routing_handler call.
WildcardCors(r) ==
    set_header(set_header(set_header(r,
        ACAO, "*"),
        ACAM, "GET, POST, PUT, DELETE, OPTIONS"),
        ACAH, "Content-Type, Authorization")

\* void SendJsonResponse(res, json, status)
SendJsonResponse(r, json, status) ==
    set_content([r EXCEPT !.status = status], json, "application/json")

\* void SendErrorResponse(res, message, status)
SendErrorResponse(r, message, status) ==
    SendJsonResponse(r, Json({"error", "timestamp"}, message, <<>>, <<>>), status)

\* The catch blocks: json error = {{"error", ...}, {"status", 500}};
InternalError(r) ==
    SendJsonResponse(r, Json({"error", "status"}, "Internal server error", <<>>, <<>>), 500)

\* What a handler leaves: the response, the collaborator calls it made with
\* their outcomes, and whether an exception left the handler.
Out(r, cs, thrown) == [res |-> r, calls |-> cs, thrown |-> thrown]

Call(fn, out) == [fn |-> fn, out |-> out]

----------------------------------------------------------------------------
(* The constructor: the pre-routing hook and the route table.               *)

\* The two set_pre_routing_handler calls, in order.  The server holds one
\* pre-routing handler: a later call replaces the earlier one.
PreRoutingCalls == <<"SetCorsHeaders", "WildcardCors">>

pre_routing_handler_ == PreRoutingCalls[Len(PreRoutingCalls)]

PreRouting(r) ==
    IF pre_routing_handler_ = "SetCorsHeaders" THEN SetCorsHeaders(r)
                                                ELSE WildcardCors(r)

\* The capture group ([^/]+) of a route pattern.
Capture == "([^/]+)"

\* The path matcher with the pattern matched as a prefix of the path instead
\* of against the whole path.
MatchesPrefix(pattern, path) ==
    /\ Len(pattern) <= Len(path)
    /\ \A i \in 1..Len(pattern) :
          IF pattern[i] = Capture THEN path[i] # "" ELSE path[i] = pattern[i]

\* A path is the sequence of its segments: "/api/player/" is
\* <<"api", "player", "">>.  A pattern is matched against the whole path
\* (std::regex_match); ([^/]+) takes one non-empty segment.
Matches(pattern, path) ==
    /\ Len(pattern) = Len(path)
    /\ \A i \in 1..Len(pattern) :
          IF pattern[i] = Capture THEN path[i] # "" ELSE path[i] = pattern[i]

Route(pattern, handler) == [pattern |-> pattern, handler |-> handler]

\* The _server->Get(...) calls, in registration order.
GetRoutes == <<
    Route(<<"api", "health">>, "HandleHealthCheck"),
    Route(<<"api", "server">>, "HandleServerInfo"),
    Route(<<"api", "host">>, "HandleHostInfo"),
    Route(<<"api", "players">>, "HandleOnlinePlayers"),
    Route(<<"api", "player", Capture>>, "HandlePlayerInfo"),
    Route(<<"api", "player", Capture, "stats">>, "HandlePlayerStats"),
    Route(<<"api", "player", Capture, "equipment">>, "HandlePlayerEquipment"),
    Route(<<"api", "player", Capture, "skills">>, "HandlePlayerSkills"),
    Route(<<"api", "player", Capture, "skills-full">>, "HandlePlayerSkillsFull"),
    Route(<<"api", "player", Capture, "quests">>, "HandlePlayerQuests") >>

\* httplib dispatch: the handler of the first binding whose pattern matches.
dispatch_request(routes, path) ==
    LET hits == {i \in 1..Len(routes) : Matches(routes[i].pattern, path)}
    IN  IF hits = {} THEN "none"
        ELSE routes[CHOOSE i \in hits : \A j \in hits : i <= j].handler

\* httplib routing by method; _server->Options(".*", ...) matches any path.
Routing(rq) ==
    IF rq.method = "GET" THEN dispatch_request(GetRoutes, rq.path)
    ELSE IF rq.method = "OPTIONS" THEN "Options"
    ELSE "none"

----------------------------------------------------------------------------
(* Endpoint handlers.                                                       *)

\* What GameStateUtilities::FindPlayerByName and Player::IsInWorld give.
Lookups == {"null", "not_in_world", "in_world"}

\* The OPTIONS responder without its SetCorsHeaders call.
OptionsHandlerNoCors(r) == Out([r EXCEPT !.status = 200], <<>>, FALSE)

\* _server->Options(".*", ...): SetCorsHeaders(res); res.status = 200;
OptionsHandler(r) == Out([SetCorsHeaders(r) EXCEPT !.status = 200], <<>>, FALSE)

\* void HandleHealthCheck(req, res)
HandleHealthCheck(r) ==
    Out(SendJsonResponse(r, Json({"status", "timestamp", "uptime_seconds"}, "",
                                 <<"ok">>, <<>>), 200),
        <<Call("GetUptime", "ok")>>, FALSE)

\* void HandleServerInfo(req, res): try { GetServerData } catch { 500 }
HandleServerInfo(r, fault) ==
    IF fault
      THEN Out(InternalError(r), <<Call("GetServerData", "throws")>>, FALSE)
      ELSE Out(SendJsonResponse(r, Json({"server"}, "", <<"GetServerData">>, <<>>), 200),
               <<Call("GetServerData", "ok")>>, FALSE)

\* void HandleOnlinePlayers(req, res)
HandleOnlinePlayers(rq, r, fault) ==
    LET includeEquipment == IF rq.query = "equipment=true" THEN "true" ELSE "false"
    IN  IF fault
          THEN Out(InternalError(r), <<Call("GetAllPlayersData", "throws")>>, FALSE)
          ELSE Out(SendJsonResponse(r, Json({"count", "players"}, "",
                                            <<"GetAllPlayersData", includeEquipment>>,
                                            <<>>), 200),
                   <<Call("GetAllPlayersData", "ok")>>, FALSE)

\* The body the six player-scoped handlers share, with the lookup test
\* reduced to the null check.
PlayerEndpointNullOnly(shape, arg, rq, r, lookup, fault) ==
    LET playerName == rq.path[3]
    IN  IF playerName = ""
          THEN Out(SendErrorResponse(r, "Player name is required", 400), <<>>, FALSE)
        ELSE IF lookup = "null"
          THEN Out(SendErrorResponse(r, "Player not found or not online", 404),
                   <<Call("FindPlayerByName", lookup)>>, FALSE)
        ELSE IF fault
          THEN Out(r, <<Call("FindPlayerByName", lookup), Call(shape, "throws")>>, TRUE)
        ELSE Out(SendJsonResponse(r, Json({"data"}, "", <<shape, playerName, arg>>, <<>>),
                                  200),
                 <<Call("FindPlayerByName", lookup), Call(shape, "ok")>>, FALSE)

\* The body the six player-scoped handlers share: empty name 400; no player
\* or a player not in the world 404; else the shaping function's JSON, 200.
\* An exception of the shaping function or of dump() leaves the handler.
PlayerEndpoint(shape, arg, rq, r, lookup, fault) ==
    LET playerName == rq.path[3]
    IN  IF playerName = ""
          THEN Out(SendErrorResponse(r, "Player name is required", 400), <<>>, FALSE)
        ELSE IF lookup # "in_world"
          THEN Out(SendErrorResponse(r, "Player not found or not online", 404),
                   <<Call("FindPlayerByName", lookup)>>, FALSE)
        ELSE IF fault
          THEN Out(r, <<Call("FindPlayerByName", lookup), Call(shape, "throws")>>, TRUE)
        ELSE Out(SendJsonResponse(r, Json({"data"}, "", <<shape, playerName, arg>>, <<>>),
                                  200),
                 <<Call("FindPlayerByName", lookup), Call(shape, "ok")>>, FALSE)

\* void HandlePlayerInfo(req, res); includeEquipment from ?include=...equipment...
HandlePlayerInfo(rq, r, lookup, fault) ==
    PlayerEndpoint("GetPlayerData",
                   IF rq.query = "include=equipment" THEN "true" ELSE "false",
                   rq, r, lookup, fault)

HandlePlayerStats(rq, r, lookup, fault) ==
    PlayerEndpoint("GetPlayerStats", "", rq, r, lookup, fault)

HandlePlayerEquipment(rq, r, lookup, fault) ==
    PlayerEndpoint("GetPlayerEquipment", "", rq, r, lookup, fault)

HandlePlayerSkills(rq, r, lookup, fault) ==
    PlayerEndpoint("GetPlayerSkills", "", rq, r, lookup, fault)

HandlePlayerSkillsFull(rq, r, lookup, fault) ==
    PlayerEndpoint("GetPlayerSkillsFull", "", rq, r, lookup, fault)

HandlePlayerQuests(rq, r, lookup, fault) ==
    PlayerEndpoint("GetPlayerQuests", "", rq, r, lookup, fault)

----------------------------------------------------------------------------
(* HandleHostInfo: the Linux sampling path and the peak statics.            *)

\* Width of the model's unsigned counters, standing for unsigned long long.
CounterBits == 4
Wrap == 2 ^ CounterBits

\* The host's cumulative counters stay below this; memory in use is 0..MaxMem.
MaxTicks == 2
MaxMem == 1

\* Unsigned subtraction: total - prevTotal, totalIdle - prevIdle.
USub(a, b) == (a - b + Wrap) % Wrap

\* std::round of n/d (d > 0): halves away from zero.
RoundDiv(n, d) ==
    IF n >= 0 THEN (2 * n + d) \div (2 * d)
              ELSE -((2 * (-n) + d) \div (2 * d))

\* currentCpuUsage in hundredths of a percent:
\* round((1.0 - idleDiff / totalDiff) * 100.0 * 100.0) / 100.0
CpuUsage(total, totalIdle, st) ==
    LET totalDiff == USub(total, st.prevTotal)
        idleDiff  == USub(totalIdle, st.prevIdle)
    IN  IF totalDiff > 0 THEN RoundDiv(10000 * (totalDiff - idleDiff), totalDiff)
                         ELSE 0

SamplerInit ==
    [peakCpuUsage |-> 0, peakMemUsage |-> 0,
     prevTotal |-> 0, prevIdle |-> 0, firstCall |-> TRUE]

\* void HandleHostInfo(req, res), run with no other request inside it.
\* statOk: /proc/stat was opened and parsed.
\* fault: no exception, one before the sampling, or one after the statics
\* were updated; the catch block answers 500.
HandleHostInfo(r, st, host, statOk, fault) ==
    LET currentMemUsage == host.mem
        currentCpuUsage ==
            IF statOk /\ ~st.firstCall THEN CpuUsage(host.total, host.idle, st) ELSE 0
        st1 == IF statOk
                 THEN [st EXCEPT !.prevTotal = host.total, !.prevIdle = host.idle,
                                 !.firstCall = FALSE]
                 ELSE st
        st2 == [st1 EXCEPT
                  !.peakCpuUsage = IF currentCpuUsage > @ THEN currentCpuUsage ELSE @,
                  !.peakMemUsage = IF currentMemUsage > @ THEN currentMemUsage ELSE @]
    IN  CASE fault = "early" ->
               [out |-> Out(InternalError(r), <<Call("sample", "throws")>>, FALSE),
                sampler |-> st]
          [] fault = "late" ->
               [out |-> Out(InternalError(r), <<Call("sample", "throws")>>, FALSE),
                sampler |-> st2]
          [] OTHER ->
               [out |-> Out(SendJsonResponse(r,
                                Json({"uptime_seconds", "total_mem", "current_cpu",
                                      "max_cpu", "current_mem", "max_mem", "timestamp"},
                                     "", <<>>,
                                     <<currentCpuUsage, st2.peakCpuUsage,
                                       currentMemUsage, st2.peakMemUsage>>), 200),
                            <<Call("sample", "ok")>>, FALSE),
                sampler |-> st2]

----------------------------------------------------------------------------
(* One request through httplib: pre-routing hook, routing, the handler,     *)
(* and the status httplib gives a response no handler finished.             *)

Methods == {"GET", "OPTIONS", "POST"}
Names == {"Alice", "Bob"}
Subs == {"stats", "equipment", "skills", "skills-full", "quests"}

Paths ==
    {<<"">>, <<"api", "health">>, <<"api", "server">>, <<"api", "host">>,
     <<"api", "players">>, <<"api", "player">>, <<"api", "nope">>}
    \cup {<<"api", "player", n>> : n \in Names \cup {""}}
    \cup {<<"api", "player", n, s>> : n \in Names \cup {""}, s \in Subs \cup {"other", ""}}
    \cup {<<"api", "player", n, "stats", "x">> : n \in Names}

Queries == {"", "equipment=true", "include=equipment"}

Requests ==
    {rq \in [method : Methods, path : Paths, query : Queries] :
        rq.query # "" =>
            /\ rq.method = "GET"
            /\ rq.path \in {<<"api", "players">>} \cup {<<"api", "player", n>> : n \in Names}}

\* Requests are served while a listener thread is in its accept loop.
Serving ==
    /\ pc # "terminated"
    /\ _server.sock
    /\ \E t \in Tids : thr[t] = "accepting"

\* httplib process_request: an exception out of a handler gives 500 and an
\* EXCEPTION_WHAT header; no matching handler gives 404; a handler that set
\* no status gives 200.
Finish(out, routed) ==
    IF out.thrown
      THEN set_header([out.res EXCEPT !.status = 500], "EXCEPTION_WHAT", "what")
    ELSE IF ~routed
      THEN [out.res EXCEPT !.status = IF @ = -1 THEN 404 ELSE @]
    ELSE [out.res EXCEPT !.status = IF @ = -1 THEN 200 ELSE @]

Respond(rq, out, routed) ==
    /\ req' = rq
    /\ res' = Finish(out, routed)
    /\ calls' = out.calls

\* A request to one of the six player-scoped bindings.
ServePlayer(rq, out) ==
    /\ Serving
    /\ Respond(rq, out, TRUE)
    /\ UNCHANGED <<lifeVars, wk, hist, _allowedOrigin, os, sampler>>

Options ==
    /\ Serving
    /\ \E rq \in Requests :
         /\ Routing(rq) = "Options"
         /\ Respond(rq, OptionsHandler(PreRouting(FreshResponse)), TRUE)
    /\ UNCHANGED <<lifeVars, wk, hist, _allowedOrigin, os, sampler>>

GetHealth ==
    /\ Serving
    /\ \E rq \in Requests :
         /\ Routing(rq) = "HandleHealthCheck"
         /\ Respond(rq, HandleHealthCheck(PreRouting(FreshResponse)), TRUE)
    /\ UNCHANGED <<lifeVars, wk, hist, _allowedOrigin, os, sampler>>

GetServer ==
    /\ Serving
    /\ \E rq \in Requests, fault \in BOOLEAN :
         /\ Routing(rq) = "HandleServerInfo"
         /\ Respond(rq, HandleServerInfo(PreRouting(FreshResponse), fault), TRUE)
    /\ UNCHANGED <<lifeVars, wk, hist, _allowedOrigin, os, sampler>>

\* The requests the /api/host binding receives.
RequestsForHost == {rq : rq \in {r \in Requests : Routing(r) = "HandleHostInfo"}}

GetHost ==
    /\ Serving
    /\ \E rq \in RequestsForHost, statOk \in BOOLEAN, fault \in {"none", "early", "late"} :
         /\ LET h == HandleHostInfo(PreRouting(FreshResponse), sampler, os, statOk, fault)
            IN  /\ Respond(rq, h.out, TRUE)
                /\ sampler' = h.sampler
    /\ UNCHANGED <<lifeVars, wk, hist, _allowedOrigin, os>>

GetPlayers ==
    /\ Serving
    /\ \E rq \in Requests, fault \in BOOLEAN :
         /\ Routing(rq) = "HandleOnlinePlayers"
         /\ Respond(rq, HandleOnlinePlayers(rq, PreRouting(FreshResponse), fault), TRUE)
    /\ UNCHANGED <<lifeVars, wk, hist, _allowedOrigin, os, sampler>>

GetPlayerInfo ==
    \E rq \in Requests :
        /\ Routing(rq) = "HandlePlayerInfo"
        /\ \E lookup \in Lookups, fault \in BOOLEAN :
             ServePlayer(rq, HandlePlayerInfo(rq, PreRouting(FreshResponse), lookup, fault))

GetPlayerStats ==
    \E rq \in Requests :
        /\ Routing(rq) = "HandlePlayerStats"
        /\ \E lookup \in Lookups, fault \in BOOLEAN :
             ServePlayer(rq, HandlePlayerStats(rq, PreRouting(FreshResponse), lookup, fault))

GetPlayerEquipment ==
    \E rq \in Requests :
        /\ Routing(rq) = "HandlePlayerEquipment"
        /\ \E lookup \in Lookups, fault \in BOOLEAN :
             ServePlayer(rq, HandlePlayerEquipment(rq, PreRouting(FreshResponse), lookup, fault))

GetPlayerSkills ==
    \E rq \in Requests :
        /\ Routing(rq) = "HandlePlayerSkills"
        /\ \E lookup \in Lookups, fault \in BOOLEAN :
             ServePlayer(rq, HandlePlayerSkills(rq, PreRouting(FreshResponse), lookup, fault))

GetPlayerSkillsFull ==
    \E rq \in Requests :
        /\ Routing(rq) = "HandlePlayerSkillsFull"
        /\ \E lookup \in Lookups, fault \in BOOLEAN :
             ServePlayer(rq, HandlePlayerSkillsFull(rq, PreRouting(FreshResponse), lookup, fault))

GetPlayerQuests ==
    \E rq \in Requests :
        /\ Routing(rq) = "HandlePlayerQuests"
        /\ \E lookup \in Lookups, fault \in BOOLEAN :
             ServePlayer(rq, HandlePlayerQuests(rq, PreRouting(FreshResponse), lookup, fault))

\* No binding matches: httplib answers 404 with no body.
Unmatched ==
    /\ Serving
    /\ \E rq \in Requests :
         /\ Routing(rq) = "none"
         /\ Respond(rq, Out(PreRouting(FreshResponse), <<>>, FALSE), FALSE)
    /\ UNCHANGED <<lifeVars, wk, hist, _allowedOrigin, os, sampler>>

\* The host's cumulative CPU counters advance: one more tick, idle or busy.
HostTick ==
    /\ os.total < MaxTicks
    /\ \E idle \in BOOLEAN :
         os' = [os EXCEPT !.total = @ + 1, !.idle = IF idle THEN @ + 1 ELSE @]
    /\ UNCHANGED <<lifeVars, wk, hist, _allowedOrigin, req, res, calls, sampler>>

\* The host's memory in use changes.
HostMemChange ==
    /\ \E m \in 0..MaxMem : m # os.mem /\ os' = [os EXCEPT !.mem = m]
    /\ UNCHANGED <<lifeVars, wk, hist, _allowedOrigin, req, res, calls, sampler>>

----------------------------------------------------------------------------
(* HandleHostInfo statement by statement, on httplib's worker threads.      *)
(* The statics are plain variables read and written with no lock, so the    *)
(* steps of two requests interleave.                                        *)

\* Worker threads of httplib's pool that may be inside HandleHostInfo at once.
MaxWorkers == 2
Workers == 1..MaxWorkers

\* /api/host requests handled in one run of the model.
MaxSamples == 3

\* A worker's locals: currentMemUsage, total, totalIdle, totalDiff, idleDiff
\* and currentCpuUsage.
IdleWorker ==
    [pc |-> "idle", currentMemUsage |-> 0, total |-> 0, totalIdle |-> 0,
     totalDiff |-> 0, idleDiff |-> 0, currentCpuUsage |-> 0]

\* The requests begun, the largest peaks reported and the largest current
\* values sampled so far, and the counter pairs that one sample stored.
HistInit ==
    [started |-> 0, maxCpuReported |-> 0, maxMemReported |-> 0,
     cpuSampled |-> 0, memSampled |-> 0, pairs |-> {}, last |-> <<0, 0>>]

Max(a, b) == IF a >= b THEN a ELSE b

HostRequest == [method |-> "GET", path |-> <<"api", "host">>, query |-> ""]

\* The handler is entered; /proc/meminfo and /proc/stat are read.  An
\* exception here is answered by the catch block.  statOk: the stat file was
\* opened and its first line parsed; otherwise currentCpuUsage stays 0.
\* The pool's workers are interchangeable: the request goes to the idle
\* worker with the lowest number.
HostRead(w) ==
    /\ Serving
    /\ wk[w].pc = "idle"
    /\ \A v \in Workers : v < w => wk[v].pc # "idle"
    /\ hist.started < MaxSamples
    /\ \E statOk \in BOOLEAN, fault \in BOOLEAN :
         IF fault
           THEN /\ Respond(HostRequest,
                           Out(InternalError(PreRouting(FreshResponse)),
                               <<Call("sample", "throws")>>, FALSE), TRUE)
                /\ hist' = [hist EXCEPT !.started = @ + 1]
                /\ UNCHANGED wk
           ELSE /\ wk' = [wk EXCEPT ![w] =
                            [IdleWorker EXCEPT
                               !.pc = IF statOk THEN "first_call" ELSE "peak_cpu",
                               !.currentMemUsage = os.mem,
                               !.total = IF statOk THEN os.total ELSE 0,
                               !.totalIdle = IF statOk THEN os.idle ELSE 0]]
                /\ hist' = [hist EXCEPT !.started = @ + 1,
                                        !.memSampled = Max(@, os.mem)]
                /\ UNCHANGED <<req, res, calls>>
    /\ UNCHANGED <<lifeVars, _allowedOrigin, os, sampler>>

\* if (firstCall)
HostFirstCall(w) ==
    /\ wk[w].pc = "first_call"
    /\ wk' = [wk EXCEPT ![w].pc = IF sampler.firstCall THEN "base_total" ELSE "diff_total"]
    /\ UNCHANGED <<lifeVars, _allowedOrigin, req, res, calls, os, sampler, hist>>

\* prevTotal = total;
HostBaseTotal(w) ==
    /\ wk[w].pc = "base_total"
    /\ sampler' = [sampler EXCEPT !.prevTotal = wk[w].total]
    /\ wk' = [wk EXCEPT ![w].pc = "base_idle"]
    /\ UNCHANGED <<lifeVars, _allowedOrigin, req, res, calls, os, hist>>

\* prevIdle = totalIdle; firstCall = false; currentCpuUsage = 0.0;
HostBaseIdle(w) ==
    /\ wk[w].pc = "base_idle"
    /\ sampler' = [sampler EXCEPT !.prevIdle = wk[w].totalIdle, !.firstCall = FALSE]
    /\ wk' = [wk EXCEPT ![w].pc = "peak_cpu", ![w].currentCpuUsage = 0,
                        ![w].total = 0, ![w].totalIdle = 0]
    /\ hist' = [hist EXCEPT !.pairs = @ \cup {<<wk[w].total, wk[w].totalIdle>>},
                            !.last = <<wk[w].total, wk[w].totalIdle>>]
    /\ UNCHANGED <<lifeVars, _allowedOrigin, req, res, calls, os>>

\* unsigned long long totalDiff = total - prevTotal;
HostDiffTotal(w) ==
    /\ wk[w].pc = "diff_total"
    /\ wk' = [wk EXCEPT ![w].pc = "diff_idle",
                        ![w].totalDiff = USub(wk[w].total, sampler.prevTotal)]
    /\ UNCHANGED <<lifeVars, _allowedOrigin, req, res, calls, os, sampler, hist>>

\* unsigned long long idleDiff = totalIdle - prevIdle;
\* if (totalDiff > 0) currentCpuUsage = round((1.0 - idleDiff / totalDiff) * 10000) / 100
HostDiffIdle(w) ==
    /\ wk[w].pc = "diff_idle"
    /\ LET idleDiff == USub(wk[w].totalIdle, sampler.prevIdle)
           cpu == IF wk[w].totalDiff > 0
                    THEN RoundDiv(10000 * (wk[w].totalDiff - idleDiff), wk[w].totalDiff)
                    ELSE 0
       IN  /\ wk' = [wk EXCEPT ![w].pc = "store_total", ![w].idleDiff = idleDiff,
                               ![w].currentCpuUsage = cpu]
           /\ hist' = [hist EXCEPT !.cpuSampled = Max(@, cpu)]
    /\ UNCHANGED <<lifeVars, _allowedOrigin, req, res, calls, os, sampler>>

\* prevTotal = total;
HostStoreTotal(w) ==
    /\ wk[w].pc = "store_total"
    /\ sampler' = [sampler EXCEPT !.prevTotal = wk[w].total]
    /\ wk' = [wk EXCEPT ![w].pc = "store_idle", ![w].totalDiff = 0, ![w].idleDiff = 0]
    /\ UNCHANGED <<lifeVars, _allowedOrigin, req, res, calls, os, hist>>

\* prevIdle = totalIdle;
HostStoreIdle(w) ==
    /\ wk[w].pc = "store_idle"
    /\ sampler' = [sampler EXCEPT !.prevIdle = wk[w].totalIdle]
    /\ wk' = [wk EXCEPT ![w].pc = "peak_cpu", ![w].total = 0, ![w].totalIdle = 0]
    /\ hist' = [hist EXCEPT !.pairs = @ \cup {<<wk[w].total, wk[w].totalIdle>>},
                            !.last = <<wk[w].total, wk[w].totalIdle>>]
    /\ UNCHANGED <<lifeVars, _allowedOrigin, req, res, calls, os>>

\* if (currentCpuUsage > peakCpuUsage)
HostPeakCpu(w) ==
    /\ wk[w].pc = "peak_cpu"
    /\ wk' = [wk EXCEPT ![w].pc = IF wk[w].currentCpuUsage > sampler.peakCpuUsage
                                    THEN "peak_cpu_write" ELSE "peak_mem"]
    /\ UNCHANGED <<lifeVars, _allowedOrigin, req, res, calls, os, sampler, hist>>

\* peakCpuUsage = currentCpuUsage;
HostPeakCpuWrite(w) ==
    /\ wk[w].pc = "peak_cpu_write"
    /\ sampler' = [sampler EXCEPT !.peakCpuUsage = wk[w].currentCpuUsage]
    /\ wk' = [wk EXCEPT ![w].pc = "peak_mem"]
    /\ UNCHANGED <<lifeVars, _allowedOrigin, req, res, calls, os, hist>>

\* if (currentMemUsage > peakMemUsage)
HostPeakMem(w) ==
    /\ wk[w].pc = "peak_mem"
    /\ wk' = [wk EXCEPT ![w].pc = IF wk[w].currentMemUsage > sampler.peakMemUsage
                                    THEN "peak_mem_write" ELSE "respond"]
    /\ UNCHANGED <<lifeVars, _allowedOrigin, req, res, calls, os, sampler, hist>>

\* peakMemUsage = currentMemUsage;
HostPeakMemWrite(w) ==
    /\ wk[w].pc = "peak_mem_write"
    /\ sampler' = [sampler EXCEPT !.peakMemUsage = wk[w].currentMemUsage]
    /\ wk' = [wk EXCEPT ![w].pc = "respond"]
    /\ UNCHANGED <<lifeVars, _allowedOrigin, req, res, calls, os, hist>>

\* The response is built from the locals and the peak statics and sent; an
\* exception while it is built is answered by the catch block.
HostRespond(w) ==
    /\ wk[w].pc = "respond"
    /\ \E fault \in BOOLEAN :
         IF fault
           THEN /\ Respond(HostRequest,
                           Out(InternalError(PreRouting(FreshResponse)),
                               <<Call("sample", "throws")>>, FALSE), TRUE)
                /\ UNCHANGED hist
           ELSE /\ Respond(HostRequest,
                           Out(SendJsonResponse(PreRouting(FreshResponse),
                                   Json({"uptime_seconds", "total_mem", "current_cpu",
                                         "max_cpu", "current_mem", "max_mem", "timestamp"},
                                        "", <<>>,
                                        <<wk[w].currentCpuUsage, sampler.peakCpuUsage,
                                          wk[w].currentMemUsage, sampler.peakMemUsage>>),
                                   200),
                               <<Call("sample", "ok")>>, FALSE), TRUE)
                /\ hist' = [hist EXCEPT
                              !.maxCpuReported = Max(@, sampler.peakCpuUsage),
                              !.maxMemReported = Max(@, sampler.peakMemUsage)]
    /\ wk' = [wk EXCEPT ![w] = IdleWorker]
    /\ UNCHANGED <<lifeVars, _allowedOrigin, os, sampler>>

HostWorker(w) ==
    \/ HostRead(w)
    \/ HostFirstCall(w)
    \/ HostBaseTotal(w)
    \/ HostBaseIdle(w)
    \/ HostDiffTotal(w)
    \/ HostDiffIdle(w)
    \/ HostStoreTotal(w)
    \/ HostStoreIdle(w)
    \/ HostPeakCpu(w)
    \/ HostPeakCpuWrite(w)
    \/ HostPeakMem(w)
    \/ HostPeakMemWrite(w)
    \/ HostRespond(w)

----------------------------------------------------------------------------
\* The constructor's allowed origin; no request handled yet; the statics of
\* HandleHostInfo at their initializers.
HttpInit ==
    /\ _allowedOrigin \in Origins
    /\ req = NoRequest
    /\ res = NoResponse
    /\ calls = <<>>
    /\ os = [total |-> 0, idle |-> 0, mem |-> 0]
    /\ sampler = SamplerInit
    /\ wk = [w \in Workers |-> IdleWorker]
    /\ hist = HistInit

Init == LifeInit /\ HttpInit

\* The state after the constructor and one Start() that returned true, its
\* listener thread in the accept loop.
ServingInit ==
    /\ _running = TRUE
    /\ _serverThread = 1
    /\ _server = [is_running |-> TRUE, sock |-> TRUE]
    /\ thr = [t \in Tids |-> IF t = 1 THEN "accepting" ELSE "unborn"]
    /\ listenRet = [t \in Tids |-> "none"]
    /\ joined = {}
    /\ pc = "idle"
    /\ log = <<[op |-> "Start", ret |-> TRUE, tid |-> 1, running |-> TRUE]>>
    /\ HttpInit

Next ==
    \/ StartCall
    \/ StartSpawn
    \/ StartWake
    \/ StartJoin
    \/ StopCall
    \/ StopSignal
    \/ StopJoin
    \/ StopStore
    \/ DtorCall
    \/ DtorSignal
    \/ DtorJoin
    \/ DtorStore
    \/ DtorMembers
    \/ \E t \in Tids : Listener(t)

Spec == Init /\ [][Next]_vars

\* Every started step of the control thread and of a listener thread is
\* eventually taken when it stays possible: both are running OS threads.
\* Whether the caller makes another Start()/Stop() call is left open.
FairSpec ==
    /\ Spec
    /\ WF_vars(StartSpawn)
    /\ WF_vars(StartWake)
    /\ WF_vars(StartJoin)
    /\ WF_vars(StopSignal)
    /\ WF_vars(StopJoin)
    /\ WF_vars(StopStore)
    /\ WF_vars(DtorSignal)
    /\ WF_vars(DtorJoin)
    /\ WF_vars(DtorStore)
    /\ WF_vars(DtorMembers)
    /\ \A t \in Tids : WF_vars(Listener(t))

------------------------------------------------------------\* Requests handled while the listener accepts.
HttpNext ==
    \/ Options
    \/ GetHealth
    \/ GetServer
    \/ GetHost
    \/ GetPlayers
    \/ GetPlayerInfo
    \/ GetPlayerStats
    \/ GetPlayerEquipment
    \/ GetPlayerSkills
    \/ GetPlayerSkillsFull
    \/ GetPlayerQuests
    \/ Unmatched

HttpSpec == ServingInit /\ [][HttpNext]_vars

\* /api/host requests on the worker threads, statement by statement, while
\* the host's counters and memory in use move.
HostNext ==
    \/ \E w \in Workers : HostWorker(w)
    \/ HostTick
    \/ HostMemChange

\* Start()/Stop() cycles of a server constructed with the origin "*", with
\* /api/host requests, one at a time, served whenever a listener accepts
\* and the host's memory in use changing.
CycleInit == Init /\ _allowedOrigin = "*"

CycleNext ==
    \/ Next
    \/ GetHost
    \/ HostMemChange

CycleSpec == CycleInit /\ [][CycleNext]_vars

\* The server was constructed with the origin "*" and is serving.
HostInit == ServingInit /\ _allowedOrigin = "*"

HostSpec == HostInit /\ [][HostNext]_vars

----------------
(* Lifecycle properties.                                                    *)

\* Some listener thread of this instance failed to bind host:port.
BindFailed == \E t \in Tids : listenRet[t] = "false"

\* The calls made so far are all Start() calls.
OnlyStarts == \A i \in 1..Len(log) : log[i].op = "Start"

StartPcs == {"start_spawn", "start_sleep", "start_join"}
StopPcs == {"stop_signal", "stop_join", "stop_store"}

\* C1: on a fresh server whose host:port can be bound, the first Start()
\* returns true and IsRunning() is true after it; a second Start() in a row
\* returns false, does not end the process, and IsRunning() is still true.
StartTwiceTrueThenFalse ==
    (~BindFailed /\ OnlyStarts /\ Len(log) >= 1) =>
        /\ log[1].ret /\ log[1].running
        /\ pc # "terminated"
        /\ (pc = "idle" /\ Len(log) <= 2) => IsRunning
        /\ Len(log) >= 2 => (~log[2].ret /\ log[2].running)

\* Two Start() calls in a row have returned on a server that could bind.
StartTwiceWitness ==
    /\ ~BindFailed /\ OnlyStarts /\ Len(log) = 2 /\ pc = "idle"
    /\ log[1].ret /\ ~log[2].ret /\ thr[1] = "accepting"

\* Call i is a Start() that follows a Stop() that follows a Start() that
\* returned true.
RestartAt(i) ==
    /\ i >= 3 /\ i <= Len(log)
    /\ log[i-2].op = "Start" /\ log[i-2].ret
    /\ log[i-1].op = "Stop"
    /\ log[i].op = "Start"

\* C2: after a Start() that returned true and a Stop(), IsRunning() is false;
\* a following Start() returns true with IsRunning() true (host:port being
\* bindable), in every Start/Stop cycle.
RestartAfterStop ==
    \A i \in 1..Len(log) :
        /\ (i >= 2 /\ log[i].op = "Stop" /\ log[i-1].op = "Start" /\ log[i-1].ret) =>
               /\ ~log[i].running
               /\ (pc = "idle" /\ i = Len(log)) => ~IsRunning
        /\ (RestartAt(i) /\ ~BindFailed) =>
               /\ log[i].ret /\ log[i].running
               /\ (pc = "idle" /\ i = Len(log)) => IsRunning

\* A second Start/Stop cycle has begun: Start, Stop, Start on a bindable
\* port, the second listener thread accepting.
RestartWitness ==
    /\ RestartAt(3) /\ ~BindFailed /\ pc = "idle"
    /\ log[3].ret /\ log[3].tid = 2 /\ thr[2] = "accepting" /\ 1 \in joined

\* C3: a Start() whose listener thread failed to bind returned false.
BindFailureReported ==
    \A i \in 1..Len(log) :
        (log[i].op = "Start" /\ log[i].tid # NoThread /\ listenRet[log[i].tid] = "false")
            => ~log[i].ret

\* C4: every Start() call eventually returns to its caller.
StartEventuallyReturns == (pc \in StartPcs) ~> (pc = "idle")

\* C5: a Stop() made while running eventually returns, and when it returns
\* the listening socket is closed, the thread is joined and IsRunning() is
\* false.
StopEventuallyReturns ==
    /\ (pc \in StopPcs) ~> (pc = "idle")
    /\ [][StopStore => (/\ ~_server'.sock
                        /\ _serverThread \in joined'
                        /\ thr'[_serverThread] = "done"
                        /\ ~_running')]_vars

\* C6: at most one listener thread of the instance is bound or about to
\* listen on host:port.
AtMostOneListener == Cardinality({t \in Tids : Listening(t)}) <= 1

\* A later Start() has spawned a second listener thread after the first one
\* returned from listen().
SecondListenerWitness ==
    \E t \in Tids : Listening(t) /\ t > 1 /\ thr[1] = "done"

----------------------------------------------------------------------------
(* Response properties.                                                     *)

\* A request has been handled.
Responded == res # NoResponse

PlayerHandlers ==
    {"HandlePlayerInfo", "HandlePlayerStats", "HandlePlayerEquipment",
     "HandlePlayerSkills", "HandlePlayerSkillsFull", "HandlePlayerQuests"}

\* The data-shaping function each player-scoped endpoint delegates to.
ShapeOf ==
    [HandlePlayerInfo |-> "GetPlayerData", HandlePlayerStats |-> "GetPlayerStats",
     HandlePlayerEquipment |-> "GetPlayerEquipment",
     HandlePlayerSkills |-> "GetPlayerSkills",
     HandlePlayerSkillsFull |-> "GetPlayerSkillsFull",
     HandlePlayerQuests |-> "GetPlayerQuests"]

\* C7: every response, for any method and path, carries the headers
\* Access-Control-Allow-Origin, -Allow-Methods and -Allow-Headers.
CorsHeadersOnEveryResponse ==
    Responded => (HasHeader(res, ACAO) /\ HasHeader(res, ACAM) /\ HasHeader(res, ACAH))

\* A 500 that httplib sent for an exception out of a handler, a default 404
\* and a preflight each occur; this is the first, with its CORS headers.
CorsOnFaultWitness ==
    /\ res.status = 500 /\ HasHeader(res, "EXCEPTION_WHAT")
    /\ req.method = "GET"
    /\ HasHeader(res, ACAO) /\ HasHeader(res, ACAM) /\ HasHeader(res, ACAH)

\* C8: on every response the Access-Control-Allow-Origin value is the
\* allowed origin the server was constructed with.
AllowOriginIsConfigured ==
    Responded =>
        /\ HasHeader(res, ACAO)
        /\ \A i \in DOMAIN HeaderValues(res, ACAO) :
              HeaderValues(res, ACAO)[i] = _allowedOrigin

\* A GET of a player-scoped endpoint with an empty name segment.
EmptyNameRequest(rq) ==
    /\ rq.method = "GET"
    /\ Len(rq.path) \in {3, 4}
    /\ rq.path[1] = "api" /\ rq.path[2] = "player" /\ rq.path[3] = ""
    /\ Len(rq.path) = 4 => rq.path[4] \in Subs

\* C9: a GET of a player-scoped endpoint whose name segment is empty is
\* answered 400 with the error "Player name is required".
EmptyNameIs400 ==
    (Responded /\ EmptyNameRequest(req)) =>
        (res.status = 400 /\ res.body.error = "Player name is required")

\* The last request went to a player-scoped handler with a non-empty name.
PlayerRequest ==
    /\ Responded
    /\ req.method = "GET"
    /\ Routing(req) \in PlayerHandlers

PlayerPayload ==
    <<ShapeOf[Routing(req)], req.path[3],
      IF Routing(req) = "HandlePlayerInfo"
        THEN (IF req.query = "include=equipment" THEN "true" ELSE "false")
        ELSE "">>

\* No player, or a player not in the world: 404, and no shaping call.
NotFoundCase ==
    (PlayerRequest /\ calls[1].out # "in_world") =>
        /\ calls[1].fn = "FindPlayerByName"
        /\ res.status = 404
        /\ res.body.error = "Player not found or not online"
        /\ Len(calls) = 1

----------------------------------------------------------------------------
(* Error handling and dispatch properties.                                  *)

ErrorStatuses == {400, 404, 500}

\* C12: every response with an error status (400, 404, 500, the 404 of an
\* unmatched path included) has a non-empty JSON body with an error message
\* field and a timestamp field.
ErrorResponsesHaveEnvelope ==
    (Responded /\ res.status \in ErrorStatuses) =>
        /\ res.body # EmptyBody
        /\ {"error", "timestamp"} \subseteq res.body.keys
        /\ res.body.error # ""

\* A collaborator call of the last request raised a fault.
CollaboratorFault == \E i \in 1..Len(calls) : calls[i].out = "throws"

\* C13: when a collaborator raises a fault while a request is handled, the
\* handler catches it and answers 500 with a JSON error body; no fault
\* leaves a handler.
FaultsCaughtInHandler ==
    (Responded /\ CollaboratorFault) =>
        /\ res.status = 500
        /\ "error" \in res.body.keys /\ res.body.error # ""
        /\ ~HasHeader(res, "EXCEPTION_WHAT")

\* C15: an OPTIONS request to any path is answered 200 with no body and the
\* CORS headers, Access-Control-Max-Age: 86400 among them, and no endpoint
\* handler or collaborator is called.
PreflightAnswered ==
    (Responded /\ req.method = "OPTIONS") =>
        /\ res.status = 200
        /\ res.body = EmptyBody
        /\ ~HasHeader(res, "Content-Type")
        /\ HasHeader(res, ACAO) /\ HasHeader(res, ACAM) /\ HasHeader(res, ACAH)
        /\ HasHeader(res, ACMA)
        /\ \A i \in DOMAIN HeaderValues(res, ACMA) : HeaderValues(res, ACMA)[i] = "86400"
        /\ calls = <<>>

\* A preflight for a player sub-resource path was answered.
PreflightWitness ==
    /\ req.method = "OPTIONS"
    /\ req.path = <<"api", "player", "Alice", "stats">>
    /\ res.status = 200
    /\ HasHeader(res, ACMA)

\* The bindings whose pattern matches a path.
Hits(path) == {i \in 1..Len(GetRoutes) : Matches(GetRoutes[i].pattern, path)}

\* The last request was a GET of /api/player/{name}/{sub}, sub a registered
\* sub-resource.
SubResourceRequest ==
    /\ Responded
    /\ req.method = "GET"
    /\ Len(req.path) = 4
    /\ req.path[1] = "api" /\ req.path[2] = "player" /\ req.path[3] # ""
    /\ req.path[4] \in Subs

SubHandler ==
    [s \in Subs |->
        CASE s = "stats" -> "HandlePlayerStats"
          [] s = "equipment" -> "HandlePlayerEquipment"
          [] s = "skills" -> "HandlePlayerSkills"
          [] s = "skills-full" -> "HandlePlayerSkillsFull"
          [] OTHER -> "HandlePlayerQuests"]

\* C19: every GET path matches at most one binding; the five sub-resource
\* paths of a player reach their own handler and never the handler of
\* /api/player/{name}; a path matching no binding gets the default 404 and
\* no handler runs.
DispatchUnambiguous ==
    /\ \A p \in Paths : Cardinality(Hits(p)) <= 1
    /\ (Responded /\ req.method = "GET" /\ Hits(req.path) = {}) =>
           (res.status = 404 /\ res.body = EmptyBody /\ calls = <<>>)
    /\ SubResourceRequest =>
           /\ Routing(req) = SubHandler[req.path[4]]
           /\ \A i \in 1..Len(calls) :
                  calls[i].fn \in {"FindPlayerByName", ShapeOf[SubHandler[req.path[4]]]}

\* GET /api/player/Alice/skills-full was served by its own shaping function.
SubResourceWitness ==
    /\ SubResourceRequest
    /\ req.path = <<"api", "player", "Alice", "skills-full">>
    /\ res.status = 200
    /\ Len(calls) = 2 /\ calls[2].fn = "GetPlayerSkillsFull"

----------------------------------------------------------------------------
(* Frame properties of the lifecycle.                                       *)

\* The control thread enters Start(): it either returns at once, adding a
\* record to the log, or goes on to create the thread.
StartEntered ==
    /\ pc = "idle"
    /\ \/ pc' = "start_spawn"
       \/ /\ Len(log') = Len(log) + 1
          /\ log'[Len(log')].op = "Start"

\* C16: a Start() call made while IsRunning() is true returns false and
\* changes nothing: no thread is spawned, the thread handle and the listener
\* are untouched and the running flag stays true.
StartWhileRunningChangesNothing ==
    [][(StartEntered /\ IsRunning) =>
          /\ pc' = "idle"
          /\ log'[Len(log')].ret = FALSE
          /\ UNCHANGED <<_running, _serverThread, _server, thr, listenRet, joined>>]_vars

\* Start() was refused while the first listener thread was accepting, and
\* that thread is still the only one and still accepting.
StartRefusedWitness ==
    /\ pc = "idle"
    /\ Len(log) >= 2
    /\ log[Len(log)] = [op |-> "Start", ret |-> FALSE, tid |-> NoThread, running |-> TRUE]
    /\ Spawned = {1}
    /\ thr[1] = "accepting"
    /\ _running

\* C20: every listener thread Start() spawned has been joined before its
\* handle is replaced by a later Start() or destroyed by the destructor;
\* the process is never ended by the destruction of a joinable thread.
ListenerJoinedBeforeHandleGone ==
    /\ pc # "terminated"
    /\ \A t \in Spawned :
          (pc = "destroyed" \/ (t # _serverThread /\ pc # "start_spawn")) =>
              t \in joined

----------------------------------------------------------------------------
(* Properties of the host sampler.                                          *)

\* No /api/host request is inside the handler.
AllCompleted == \A w \in Workers : wk[w].pc = "idle"

\* The previous-sample counters a worker's two differences were taken from.
PairRead(w) ==
    <<USub(wk[w].total, wk[w].totalDiff), USub(wk[w].totalIdle, wk[w].idleDiff)>>

\* Worker w sends a 200 response in this step.
HostResponds(w) ==
    /\ wk[w].pc = "respond"
    /\ wk'[w].pc = "idle"
    /\ res'.status = 200

\* C11: over the /api/host responses in completion order the reported
\* max_cpu never decreases and the reported max_mem never decreases.
PeaksReportedNonDecreasing ==
    [][\A w \in Workers :
          HostResponds(w) =>
              /\ res'.body.metrics[2] >= hist.maxCpuReported
              /\ res'.body.metrics[4] >= hist.maxMemReported]_vars

\* C17: once all concurrent /api/host requests have completed, the stored
\* peaks are at least every current value any of them sampled, and every
\* CPU delta was computed against a counter pair that one earlier sample
\* stored.
SamplerSynchronized ==
    /\ AllCompleted =>
           /\ sampler.peakCpuUsage >= hist.cpuSampled
           /\ sampler.peakMemUsage >= hist.memSampled
    /\ \A w \in Workers : wk[w].pc = "store_total" => PairRead(w) \in hist.pairs

\* Worker w finishes storing its counters in this step.
HostStores(w) ==
    /\ wk[w].pc \in {"base_idle", "store_idle"}
    /\ wk'[w].pc = "peak_cpu"

\* C18: the first sample reports 0 and stores its counters as the baseline;
\* every later sample reports the utilization between its counters and the
\* counters the sample before it stored, 0 when the total delta is 0, and
\* then stores its own counters.
BaselineThenDeltas ==
    [][\A w \in Workers :
          HostStores(w) =>
              /\ wk'[w].currentCpuUsage =
                     IF hist.pairs = {} THEN 0
                     ELSE CpuUsage(wk[w].total, wk[w].totalIdle,
                                   [prevTotal |-> hist.last[1], prevIdle |-> hist.last[2]])
              /\ sampler'.prevTotal = wk[w].total
              /\ sampler'.prevIdle = wk[w].totalIdle]_vars

\* C14: no step of Start(), of Stop(), of the listener thread or of the
\* destructor changes the sampler's statics (the peaks, the previous-sample
\* counters, the first-call flag), so the peaks a request finds after a
\* Start/Stop cycle are the ones the last request before it left.
LifecycleKeepsSampler == [][Next => UNCHANGED sampler]_vars

\* After Start, Stop, Start, /api/host reports a memory peak above the
\* current memory: the peak was set before the Stop.
PeakSurvivesRestartWitness ==
    /\ Len(log) >= 3
    /\ log[1].op = "Start" /\ log[1].ret
    /\ log[2].op = "Stop" /\ log[2].ret
    /\ log[3].op = "Start" /\ log[3].ret
    /\ req = HostRequest /\ res.status = 200
    /\ res.body.metrics[4] > res.body.metrics[3]
    /\ thr[2] = "accepting"

\* 100 percent, in the hundredths currentCpuUsage is kept in.
FullLoad == 100 * 100

\* C21: with cumulative host counters (HostTick only adds, idle never more
\* than total) every current_cpu lies in 0..100 and neither total - prevTotal
\* nor totalIdle - prevIdle wraps around, also when requests overlap.  A
\* difference of counters that wrapped is larger than the minuend.
CpuInRangeNoWrap ==
    \A w \in Workers :
        /\ wk[w].totalDiff <= wk[w].total
        /\ wk[w].idleDiff <= wk[w].totalIdle
        /\ wk[w].currentCpuUsage >= 0
        /\ wk[w].currentCpuUsage <= FullLoad
====
